---------------------------- MODULE Spec2Model ----------------------------
(***************************************************************************)
(* Model of nmis_dpp: the SchemaMapper base class (schema_base.py), the    *)
(* part dataclasses (part_class.py) and the ECLASS mapping builder         *)
(* (eclass_build_mapping.py).                                              *)
(*                                                                         *)
(* Spec      : one SchemaMapper adapter instance and the calls made on it. *)
(***************************************************************************)
EXTENDS Integers, Sequences, FiniteSets, TLC

(***************************************************************************)
(* Bounds of the model.                                                    *)
(***************************************************************************)
\* Number of distinct passport records handed to map_dpp.
MaxRecord == 2
\* Longest violation list returned by validate_mapping.
MaxErrors == 2
\* Most entries of a container (dict or list) held by a part.
MaxItems == 1
\* Most Unit elements of a units document.
MaxUnits == 2
\* Most property ids in the property list of a class of a class table.
MaxLinks == 2
\* Most PROPERTY and CLASS elements, taken together, of a classification document.
MaxElements == 1

(***************************************************************************)
(* State of the adapter and of the call in progress.                       *)
(***************************************************************************)
VARIABLES
  config_arg,    \* the argument given to SchemaMapper.__init__
  config,        \* self.config
  pc,            \* position of the call in progress ("idle": none)
  dpp,           \* the record of the current (or most recent) map_dpp call
  mapped,        \* the values of the dict literal evaluated so far
  calls,         \* adapter operations invoked by the most recent call, in order
  validate_arg,  \* the document handed to validate_mapping by that call
  verdict,       \* what validate_mapping did in that call
  thrown,        \* the fault an adapter operation raised in that call
  exc,           \* the exception in flight inside map_dpp
  outcome,       \* how the most recent call ended
  layer_fn,      \* graph of the adapter's layer mappers, as far as it was called
  validate_fn,   \* graph of the adapter's validate_mapping, as far as it was called
  first_outcome, \* per record, the outcome of the first completed map_dpp
  repeated,      \* how the current map_dpp call relates to earlier ones
  part,          \* the part instance handed to map_part_class
  heap,          \* the mutable containers (dicts, lists) by address
  part_heap,     \* the part's containers as they were when the part was built
  touched,       \* containers of the returned dict the caller changed since
  units_file,    \* UNITS_FILE on disk
  asset_dir,     \* ASSET_DIR on disk: the files in it, by name
  out_dir,       \* whether OUT.parent (config/) exists
  artifact,      \* OUT (config/eclass_mapping.yml) on disk
  artifact0,     \* OUT as it was when the build started
  entry,         \* the function of eclass_build_mapping.py that was called
  bpc,           \* position of the build
  pending,       \* the paths load_properties_and_classes has still to parse
  units,         \* the units table
  classes,       \* the class table
  props,         \* the property table
  part_map,      \* the result of build_part_class_mapping
  parsed,        \* the documents handed to ET.parse so far
  completed,     \* the functions that returned without a fault
  build_outcome, \* how the build ended
  observed,      \* what a reader of OUT found at its most recent load
  listing,       \* the order in which ASSET_DIR.glob gave the paths in this run
  earlier,       \* the tables an earlier run of the loader returned
  entities,      \* the CATEGORY entities: definition text by category id
  reverse_index, \* the Reverse Case-Of Index: item ids by category id
  keywords,      \* the keywords configured for the domain part class
  todo,          \* the categories the binder has still to look at
  matched_category_ids, \* field of the Domain Mapping Entry
  matched_item_ids,     \* field of the Domain Mapping Entry
  binder_pc      \* position of the binder

mvars == <<config_arg, config, pc, dpp, mapped, calls, validate_arg, verdict,
           thrown, exc, outcome, layer_fn, validate_fn, first_outcome, repeated>>

pvars == <<part, heap, part_heap, touched>>

bvars == <<units_file, asset_dir, out_dir, artifact, artifact0, entry, bpc,
           pending, units, classes, props, part_map, parsed, completed,
           build_outcome, observed, listing, earlier>>

dvars == <<entities, reverse_index, keywords, todo, matched_category_ids,
           matched_item_ids, binder_pc>>

nonmapper == <<pvars, bvars, dvars>>

vars == <<mvars, pvars, bvars, dvars>>

(***************************************************************************)
(* Values.                                                                 *)
(***************************************************************************)
EmptyDict == [k \in {} |-> 0]

Records == 1 .. MaxRecord

\* A plausible slip: two entries of the dict literal in the other order.
LayerOrderSwapped ==
  <<"identity", "structure", "risk", "lifecycle", "sustainability", "provenance">>

\* The six passport layers, in the order map_dpp's dict literal evaluates them.
LayerOrder ==
  <<"identity", "structure", "lifecycle", "risk", "sustainability", "provenance">>

Layers == {LayerOrder[i] : i \in 1 .. Len(LayerOrder)}

\* The layer mapper of each layer.
LayerMapper(l) == "map_" \o l \o "_layer"

\* dpp.identity, dpp.structure, ... of record r.
DigitalProductPassport(r) == [l \in Layers |-> r]

\* Exceptions: the class, the message (a string as the sequence of the pieces
\* it is concatenated from) and the operation that created the object.
NoExc == [type |-> "none", msg |-> <<>>, raised_by |-> "none"]

FaultTypes == {"KeyError"}

AdapterFault(op) ==
  {[type |-> t, msg |-> <<"fault in ", op>>, raised_by |-> op] : t \in FaultTypes}

\* Violation messages and the lists validate_mapping may return.
Message(i) == "violation " \o ToString(i)

ErrorLists == {[i \in 1 .. n |-> Message(i)] : n \in 0 .. MaxErrors}

NoVerdict == [kind |-> "none", is_valid |-> TRUE, errors |-> <<>>, fault |-> NoExc]

Verdicts ==
  {[kind |-> "return", is_valid |-> b, errors |-> e, fault |-> NoExc] :
     b \in BOOLEAN, e \in ErrorLists}
  \cup
  {[kind |-> "raise", is_valid |-> TRUE, errors |-> <<>>, fault |-> f] :
     f \in AdapterFault("validate_mapping")}

NoOutcome == [op |-> "none", kind |-> "none", value |-> EmptyDict, exc |-> NoExc]

(***************************************************************************)
(* SchemaMapper: the constructor and the accessors.                        *)
(***************************************************************************)
\* Optional[Dict]: None, or a dict.
NoneArg == [is_none |-> TRUE, dict |-> EmptyDict]

SomeArg(d) == [is_none |-> FALSE, dict |-> d]

ConfigArgs ==
  {NoneArg, SomeArg(EmptyDict), SomeArg([release |-> "16.0"])}

ConfigKeys == {"release", "required_fields"}

ConfigDefaults == {"default"}

\* self.config = config or {}: None and the empty dict are both falsy.
init_config(arg) ==
  IF arg.is_none \/ DOMAIN arg.dict = {} THEN EmptyDict ELSE arg.dict

\* The concrete adapter's identification (abstract in the base class).
get_schema_name == "ECLASS"

get_schema_version == "16.0"

\* The adapter's JSON-LD context: a function of the configuration alone.
get_context(cfg) ==
  [vocab |-> "http://www.eclass.eu/",
   release |-> IF "release" \in DOMAIN cfg THEN cfg["release"] ELSE "unknown"]

\* A plausible slip: dict.setdefault instead of dict.get stores the default.
get_mapping_config_setdefault(cfg, key, default) ==
  [config |-> IF key \in DOMAIN cfg THEN cfg ELSE (key :> default) @@ cfg,
   result |-> IF key \in DOMAIN cfg THEN cfg[key] ELSE default]

\* self.config.get(key, default): the configuration after the call and the
\* value returned.
get_mapping_config(cfg, key, default) ==
  [config |-> cfg,
   result |-> IF key \in DOMAIN cfg THEN cfg[key] ELSE default]

\* f"{self.__class__.__name__}(schema={name}, version={version})"
repr_string(name, version) ==
  <<"Adapter", "(schema=", name, ", version=", version, ")">>

(***************************************************************************)
(* The adapter's layer mappers and validate_mapping: arbitrary functions   *)
(* of their argument.  The graph of each is fixed the first time it is     *)
(* called with an argument and is the same at every later call.            *)
(***************************************************************************)
LayerReturn(l, v) ==
  [kind |-> "return", value |-> [layer |-> l, data |-> v], fault |-> NoExc]

LayerRaise(f) == [kind |-> "raise", value |-> EmptyDict, fault |-> f]

LayerResults(l, v) ==
  IF <<l, v>> \in DOMAIN layer_fn
    THEN {layer_fn[<<l, v>>]}
    ELSE {LayerReturn(l, v)} \cup {LayerRaise(f) : f \in AdapterFault(LayerMapper(l))}

ValidateResults(doc) ==
  IF doc \in DOMAIN validate_fn THEN {validate_fn[doc]} ELSE Verdicts

(***************************************************************************)
(* part_class.py: the part dataclasses.                                    *)
(***************************************************************************)
\* PartClass: part_id, name, type, properties.
BaseFields == <<"part_id", "name", "type", "properties">>

PartClasses ==
  {"PartClass", "PowerConversion", "EnergyStorage", "Actuator", "Sensor",
   "ControlUnit", "UserInterface", "Thermal", "Fluidics", "Structural",
   "Transmission", "Protection", "Connectivity", "SoftwareModule",
   "Consumable", "Fastener"}

\* The fields each subclass declares itself.
OwnFields(cls) ==
  CASE cls = "PartClass" -> <<>>
    [] cls = "PowerConversion" ->
         <<"input_voltage", "output_voltage", "power_rating", "efficiency">>
    [] cls = "EnergyStorage" ->
         <<"capacity", "voltage", "chemistry", "recharge_cycles">>
    [] cls = "Actuator" ->
         <<"torque", "speed", "duty_cycle", "voltage", "actuation_type">>
    [] cls = "Sensor" ->
         <<"sensor_type", "range_min", "range_max", "accuracy", "drift",
           "response_time">>
    [] cls = "ControlUnit" ->
         <<"cpu_type", "memory", "firmware_version", "io_count">>
    [] cls = "UserInterface" ->
         <<"ui_type", "display_size", "input_methods", "indicator_count">>
    [] cls = "Thermal" -> <<"power", "delta_t", "airflow">>
    [] cls = "Fluidics" -> <<"flow_rate", "pressure", "fluid_type", "volume">>
    [] cls = "Structural" ->
         <<"material", "mass", "dimensions", "load_rating">>
    [] cls = "Transmission" ->
         <<"torque_rating", "speed_rating", "transmission_type">>
    [] cls = "Protection" -> <<"protection_type", "rating", "response_time">>
    [] cls = "Connectivity" ->
         <<"interface_type", "connector_standard", "pin_count">>
    [] cls = "SoftwareModule" ->
         <<"version", "language", "license", "checksums">>
    [] cls = "Consumable" ->
         <<"consumable_type", "capacity", "replacement_interval">>
    [] cls = "Fastener" ->
         <<"fastener_type", "material", "diameter", "length", "strength">>

\* A plausible slip: only the base class's fields are projected.
fields_base_only(cls) == BaseFields

\* dataclasses.fields(part): the base class's fields, then the subclass's.
fields(cls) == BaseFields \o OwnFields(cls)

\* The fields that hold a dict or a list.
ContainerFields == {"properties", "input_methods", "dimensions", "checksums"}

\* Field values: None, a scalar, or a reference to a container on the heap.
None == [tag |-> "none", v |-> 0]

Scalar(n) == [tag |-> "scalar", v |-> n]

Ref(a) == [tag |-> "ref", v |-> a]

\* The content of a container: its entries in order.
Container(n) == [i \in 1 .. n |-> Scalar(i)]

Range(seq) == {seq[i] : i \in 1 .. Len(seq)}

\* The containers a part object refers to.
Cells(obj) == {obj[f].v : f \in {g \in DOMAIN obj : obj[g].tag = "ref"}}

\* A part of class cls: its properties dict has n entries; when filled, each of
\* the subclass's own fields is set, otherwise each keeps its default None.
\* Containers are allocated in field order.
MakePart(cls, n, filled) ==
  LET fs == BaseFields \o OwnFields(cls)
      held == {i \in 1 .. Len(fs) :
                 fs[i] \in ContainerFields /\ (fs[i] = "properties" \/ filled)}
      addr(i) == Cardinality({j \in held : j <= i})
  IN  [cls |-> cls,
       obj |-> [f \in Range(fs) |->
                 LET i == CHOOSE j \in 1 .. Len(fs) : fs[j] = f
                 IN  IF i \in held THEN Ref(addr(i))
                     ELSE IF f \in Range(BaseFields) \/ filled THEN Scalar(i)
                     ELSE None],
       heap |-> [a \in 1 .. Cardinality(held) |-> Container(n)]]

Parts ==
  {MakePart(cls, n, filled) :
     cls \in PartClasses, n \in 0 .. MaxItems, filled \in BOOLEAN}

\* The first free address of heap h.
Alloc(h) == IF DOMAIN h = {} THEN 1 ELSE 1 + CHOOSE a \in DOMAIN h : \A b \in DOMAIN h : b <= a

\* A plausible slip: dict(vars(part)), a shallow copy that shares the containers.
copy_value_shallow(val, h) == [value |-> val, heap |-> h]

\* asdict's copy of one field value: a container is rebuilt as a new object with
\* the same entries, anything else is copied by value.
copy_value(val, h) ==
  IF val.tag = "ref"
    THEN [value |-> Ref(Alloc(h)), heap |-> (Alloc(h) :> h[val.v]) @@ h]
    ELSE [value |-> val, heap |-> h]

RECURSIVE asdict_inner(_, _, _, _)
\* dict((f.name, copy of getattr(obj, f.name)) for f in fields(obj))
asdict_inner(fs, obj, h, acc) ==
  IF Len(fs) = 0 THEN [dict |-> acc, heap |-> h]
  ELSE LET c == copy_value(obj[Head(fs)], h)
       IN  asdict_inner(Tail(fs), obj, c.heap, (Head(fs) :> c.value) @@ acc)

\* dataclasses.asdict(part), on heap h: the dict and the heap with its containers.
asdict(p, h) == asdict_inner(fields(p.cls), p.obj, h, EmptyDict)

(***************************************************************************)
(* SchemaMapper.map_dpp, step by step.                                     *)
(***************************************************************************)
RECURSIVE Join(_, _)
\* sep.join(seq)
Join(seq, sep) ==
  IF Len(seq) = 0 THEN <<>>
  ELSE IF Len(seq) = 1 THEN <<seq[1]>>
  ELSE <<seq[1], sep>> \o Join(Tail(seq), sep)

\* A plausible slip: only the first violation is reported.
error_msg_first_only(errors) ==
  <<"Validation failed: ">> \o (IF Len(errors) = 0 THEN <<>> ELSE <<errors[1]>>)

\* f"Validation failed: {'; '.join(errors)}"
error_msg(errors) == <<"Validation failed: ">> \o Join(errors, "; ")

\* A plausible slip: the violations are logged and the document is returned.
check_valid_log_only(is_valid, errors, doc) ==
  [kind |-> "return", exc |-> NoExc, doc |-> doc]

\* A plausible slip: the verdict is enforced only the first time a record is
\* mapped (state kept between calls).
check_valid_first_time_only(is_valid, errors, doc) ==
  IF ~is_valid /\ first_outcome[dpp].kind = "none"
    THEN [kind |-> "raise",
          exc |-> [type |-> "ValueError", msg |-> error_msg(errors),
                   raised_by |-> "map_dpp"],
          doc |-> EmptyDict]
    ELSE [kind |-> "return", exc |-> NoExc, doc |-> doc]

\* A plausible slip: the message list decides, not the flag.
check_valid_by_errors(is_valid, errors, doc) ==
  IF Len(errors) > 0
    THEN [kind |-> "raise",
          exc |-> [type |-> "ValueError", msg |-> error_msg(errors),
                   raised_by |-> "map_dpp"],
          doc |-> EmptyDict]
    ELSE [kind |-> "return", exc |-> NoExc, doc |-> doc]

\* if not is_valid: raise ValueError(error_msg) ... return mapped
check_valid(is_valid, errors, doc) ==
  IF ~is_valid
    THEN [kind |-> "raise",
          exc |-> [type |-> "ValueError", msg |-> error_msg(errors),
                   raised_by |-> "map_dpp"],
          doc |-> EmptyDict]
    ELSE [kind |-> "return", exc |-> NoExc, doc |-> doc]

\* A plausible slip: the fault is wrapped in a new ValueError.
except_handler_wrap(e) ==
  [type |-> "ValueError", msg |-> <<"Error during mapping: ">> \o e.msg,
   raised_by |-> "map_dpp"]

\* except Exception as e: logger.error(...); raise
except_handler(e) == e

\* The position after the evaluation of layer l's entry of the dict literal.
NextPc(l) ==
  LET i == CHOOSE j \in 1 .. Len(LayerOrder) : LayerOrder[j] = l
  IN  IF i < Len(LayerOrder) THEN LayerOrder[i + 1] ELSE "validate"

\* A call that overwrites the caller's reference to the dict map_part_class
\* returned: that dict's containers are gone.
DropResult ==
  /\ heap' = [a \in Cells(part.obj) |-> heap[a]]
  /\ touched' = {}
  /\ UNCHANGED <<part, part_heap, bvars, dvars>>

\* The outcome of a map_dpp call is remembered the first time the record is mapped.
Remember(r, o) ==
  IF first_outcome[r].kind = "none"
    THEN [first_outcome EXCEPT ![r] = o]
    ELSE first_outcome

\* try: logger.info(f"Starting mapping to {self.get_schema_name()}...")
MapDppStart(r) ==
  /\ pc = "idle"
  /\ pc' = "schema"
  /\ dpp' = r
  /\ mapped' = EmptyDict
  /\ calls' = <<"get_schema_name">>
  /\ validate_arg' = EmptyDict
  /\ verdict' = NoVerdict
  /\ thrown' = NoExc
  /\ exc' = NoExc
  /\ outcome' = NoOutcome
  /\ repeated' = IF first_outcome[r].kind = "none" THEN "first"
                 ELSE IF dpp = r THEN "adjacent" ELSE "interleaved"
  /\ UNCHANGED <<config_arg, config, layer_fn, validate_fn, first_outcome>>
  /\ DropResult

\* "schema": self.get_schema_name(),
EvalSchemaName ==
  /\ pc = "schema"
  /\ mapped' = ("schema" :> get_schema_name) @@ mapped
  /\ calls' = Append(calls, "get_schema_name")
  /\ pc' = "schema_version"
  /\ UNCHANGED <<config_arg, config, dpp, validate_arg, verdict, thrown, exc,
                 outcome, layer_fn, validate_fn, first_outcome, repeated>>
  /\ UNCHANGED nonmapper

\* "schema_version": self.get_schema_version(),
EvalSchemaVersion ==
  /\ pc = "schema_version"
  /\ mapped' = ("schema_version" :> get_schema_version) @@ mapped
  /\ calls' = Append(calls, "get_schema_version")
  /\ pc' = "@context"
  /\ UNCHANGED <<config_arg, config, dpp, validate_arg, verdict, thrown, exc,
                 outcome, layer_fn, validate_fn, first_outcome, repeated>>
  /\ UNCHANGED nonmapper

\* "@context": self.get_context(),
EvalContext ==
  /\ pc = "@context"
  /\ mapped' = ("@context" :> get_context(config)) @@ mapped
  /\ calls' = Append(calls, "get_context")
  /\ pc' = LayerOrder[1]
  /\ UNCHANGED <<config_arg, config, dpp, validate_arg, verdict, thrown, exc,
                 outcome, layer_fn, validate_fn, first_outcome, repeated>>
  /\ UNCHANGED nonmapper

\* "<layer>": self.map_<layer>_layer(dpp.<layer>), the mapper returning.
MapLayerReturns ==
  /\ pc \in Layers
  /\ LET v == DigitalProductPassport(dpp)[pc]
     IN  \E res \in LayerResults(pc, v) :
           /\ res.kind = "return"
           /\ layer_fn' = (<<pc, v>> :> res) @@ layer_fn
           /\ mapped' = (pc :> res.value) @@ mapped
  /\ calls' = Append(calls, LayerMapper(pc))
  /\ pc' = NextPc(pc)
  /\ UNCHANGED <<config_arg, config, dpp, validate_arg, verdict, thrown, exc,
                 outcome, validate_fn, first_outcome, repeated>>
  /\ UNCHANGED nonmapper

\* "<layer>": self.map_<layer>_layer(dpp.<layer>), the mapper raising.
MapLayerRaises ==
  /\ pc \in Layers
  /\ LET v == DigitalProductPassport(dpp)[pc]
     IN  \E res \in LayerResults(pc, v) :
           /\ res.kind = "raise"
           /\ layer_fn' = (<<pc, v>> :> res) @@ layer_fn
           /\ thrown' = res.fault
           /\ exc' = res.fault
  /\ calls' = Append(calls, LayerMapper(pc))
  /\ pc' = "except"
  /\ UNCHANGED <<config_arg, config, dpp, mapped, validate_arg, verdict,
                 outcome, validate_fn, first_outcome, repeated>>
  /\ UNCHANGED nonmapper

\* is_valid, errors = self.validate_mapping(mapped), validate_mapping returning.
ValidateReturns ==
  /\ pc = "validate"
  /\ \E v \in ValidateResults(mapped) :
       /\ v.kind = "return"
       /\ validate_fn' = (mapped :> v) @@ validate_fn
       /\ verdict' = v
  /\ validate_arg' = mapped
  /\ calls' = Append(calls, "validate_mapping")
  /\ pc' = "check"
  /\ UNCHANGED <<config_arg, config, dpp, mapped, thrown, exc, outcome,
                 layer_fn, first_outcome, repeated>>
  /\ UNCHANGED nonmapper

\* is_valid, errors = self.validate_mapping(mapped), validate_mapping raising.
ValidateRaises ==
  /\ pc = "validate"
  /\ \E v \in ValidateResults(mapped) :
       /\ v.kind = "raise"
       /\ validate_fn' = (mapped :> v) @@ validate_fn
       /\ verdict' = v
       /\ thrown' = v.fault
       /\ exc' = v.fault
  /\ validate_arg' = mapped
  /\ calls' = Append(calls, "validate_mapping")
  /\ pc' = "except"
  /\ UNCHANGED <<config_arg, config, dpp, mapped, outcome, layer_fn,
                 first_outcome, repeated>>
  /\ UNCHANGED nonmapper

\* if not is_valid: ... raise ValueError(error_msg)
RaiseValidationError ==
  /\ pc = "check"
  /\ LET o == check_valid(verdict.is_valid, verdict.errors, mapped)
     IN  /\ o.kind = "raise"
         /\ exc' = o.exc
  /\ pc' = "except"
  /\ UNCHANGED <<config_arg, config, dpp, mapped, calls, validate_arg, verdict,
                 thrown, outcome, layer_fn, validate_fn, first_outcome, repeated>>
  /\ UNCHANGED nonmapper

\* logger.info(f"Successfully mapped DPP to {self.get_schema_name()}."); return mapped
ReturnMapped ==
  /\ pc = "check"
  /\ LET o == check_valid(verdict.is_valid, verdict.errors, mapped)
         res == [op |-> "map_dpp", kind |-> "returned", value |-> o.doc,
                 exc |-> NoExc]
     IN  /\ o.kind = "return"
         /\ outcome' = res
         /\ first_outcome' = Remember(dpp, res)
  /\ calls' = Append(calls, "get_schema_name")
  /\ pc' = "idle"
  /\ UNCHANGED <<config_arg, config, dpp, mapped, validate_arg, verdict,
                 thrown, exc, layer_fn, validate_fn, repeated>>
  /\ UNCHANGED nonmapper

\* except Exception as e: logger.error(f"Error during mapping: {str(e)}"); raise
ExceptHandler ==
  /\ pc = "except"
  /\ LET res == [op |-> "map_dpp", kind |-> "raised", value |-> EmptyDict,
                 exc |-> except_handler(exc)]
     IN  /\ outcome' = res
         /\ first_outcome' = Remember(dpp, res)
  /\ pc' = "idle"
  /\ UNCHANGED <<config_arg, config, dpp, mapped, calls, validate_arg, verdict,
                 thrown, exc, layer_fn, validate_fn, repeated>>
  /\ UNCHANGED nonmapper

\* SchemaMapper.get_mapping_config(key, default)
GetMappingConfig(key, default) ==
  /\ pc = "idle"
  /\ LET r == get_mapping_config(config, key, default)
     IN  /\ config' = r.config
         /\ outcome' = [op |-> "get_mapping_config", kind |-> "returned",
                        value |-> r.result, exc |-> NoExc]
  /\ mapped' = EmptyDict
  /\ calls' = <<>>
  /\ validate_arg' = EmptyDict
  /\ verdict' = NoVerdict
  /\ thrown' = NoExc
  /\ exc' = NoExc
  /\ UNCHANGED <<config_arg, pc, dpp, layer_fn, validate_fn, first_outcome,
                 repeated>>
  /\ DropResult

\* SchemaMapper.__repr__()
Repr ==
  /\ pc = "idle"
  /\ outcome' = [op |-> "__repr__", kind |-> "returned",
                 value |-> repr_string(get_schema_name, get_schema_version),
                 exc |-> NoExc]
  /\ mapped' = EmptyDict
  /\ calls' = <<"get_schema_name", "get_schema_version">>
  /\ validate_arg' = EmptyDict
  /\ verdict' = NoVerdict
  /\ thrown' = NoExc
  /\ exc' = NoExc
  /\ UNCHANGED <<config_arg, config, pc, dpp, layer_fn, validate_fn,
                 first_outcome, repeated>>
  /\ DropResult

\* SchemaMapper.map_part_class(part): return asdict(part).  The dict returned by
\* an earlier call is no longer referenced, so its containers are gone.
MapPartClass ==
  /\ pc = "idle"
  /\ LET live == [a \in Cells(part.obj) |-> heap[a]]
         r == asdict(part, live)
     IN  /\ heap' = r.heap
         /\ outcome' = [op |-> "map_part_class", kind |-> "returned",
                        value |-> r.dict, exc |-> NoExc]
  /\ touched' = {}
  /\ mapped' = EmptyDict
  /\ calls' = <<>>
  /\ validate_arg' = EmptyDict
  /\ verdict' = NoVerdict
  /\ thrown' = NoExc
  /\ exc' = NoExc
  /\ UNCHANGED <<config_arg, config, pc, dpp, layer_fn, validate_fn,
                 first_outcome, repeated, part, part_heap, bvars,
                 dvars>>

\* The caller adds an entry to a container of the dict map_part_class returned.
MutateResult(f) ==
  /\ pc = "idle"
  /\ outcome.op = "map_part_class"
  /\ f \in DOMAIN outcome.value
  /\ outcome.value[f].tag = "ref"
  /\ f \notin touched
  /\ heap' = [heap EXCEPT ![outcome.value[f].v] = Append(@, Scalar(0))]
  /\ touched' = touched \cup {f}
  /\ UNCHANGED <<mvars, part, part_heap, bvars, dvars>>

(***************************************************************************)
(* eclass_build_mapping.py: texts and XML lookups.  A string is the        *)
(* sequence of its characters; an element of a document is the record of   *)
(* what the lookups of the code find in it.                                *)
(***************************************************************************)
\* What a lookup finds: nothing, or the text of the first matching descendant
\* (of the attribute).  An element without text has the empty text.
Absent == [present |-> FALSE, text |-> <<>>]
Found(t) == [present |-> TRUE, text |-> t]

\* An optional string of the tables: None or a string.
NoneText == [some |-> FALSE, text |-> <<>>]
SomeText(t) == [some |-> TRUE, text |-> t]

RECURSIVE lstrip(_)
lstrip(s) == IF Len(s) > 0 /\ Head(s) = " " THEN lstrip(Tail(s)) ELSE s

RECURSIVE rstrip(_)
rstrip(s) ==
  IF Len(s) > 0 /\ s[Len(s)] = " " THEN rstrip(SubSeq(s, 1, Len(s) - 1)) ELSE s

\* str.strip()
strip(s) == rstrip(lstrip(s))

\* _findtext_any_ns(elem, local_name): (found[0].text or "").strip(), "" if
\* nothing was found.
findtext_any_ns(found) == IF found.present THEN strip(found.text) ELSE <<>>

\* (u.get("id") or "").strip()
get_id(attr) == IF attr.present THEN strip(attr.text) ELSE <<>>

\* x or None
or_none(t) == IF Len(t) > 0 THEN SomeText(t) ELSE NoneText

\* d[k] = v
Put(d, k, v) == (k :> v) @@ d

(***************************************************************************)
(* load_units                                                              *)
(***************************************************************************)
\* The texts a units document is built from: blank, plain and padded ones.
UnitIds == {Absent, Found(<<" ">>), Found(<<"a">>), Found(<<" ", "b", " ">>)}
UnitNames == {Absent, Found(<<" ">>), Found(<<"n", " ">>)}
UnitSymbols == {Absent, Found(<<" ">>), Found(<<"a">>), Found(<<" ", "b">>)}

\* A Unit element: its id attribute, its first UnitName and UnitSymbol.
UnitElements == [id : UnitIds, name : UnitNames, symbol : UnitSymbols]

RECURSIVE SeqsUpTo(_, _)
SeqsUpTo(S, n) ==
  IF n = 0 THEN {<<>>}
  ELSE LET shorter == SeqsUpTo(S, n - 1)
       IN  shorter \cup {Append(s, x) : s \in {t \in shorter : Len(t) = n - 1}, x \in S}

\* UNITS_FILE: missing, not well-formed, or a document with its Unit elements
\* in document order.
MissingFile == [exists |-> FALSE, well_formed |-> FALSE, units |-> <<>>]
MalformedUnitsFile == [exists |-> TRUE, well_formed |-> FALSE, units |-> <<>>]
UnitsDocument(us) == [exists |-> TRUE, well_formed |-> TRUE, units |-> us]
UnitsFiles ==
  {MissingFile, MalformedUnitsFile}
    \cup {UnitsDocument(us) : us \in SeqsUpTo(UnitElements, MaxUnits)}

\* A mistaken key: the symbol preferred to the identifier.
unit_key_symbol_first(uid, symbol) == IF Len(symbol) > 0 THEN symbol ELSE uid

\* key = uid or symbol
unit_key(uid, symbol) == IF Len(uid) > 0 THEN uid ELSE symbol

\* for u in _findall_any_ns(root, "Unit"): ... units[key] = {...}
RECURSIVE load_units_loop(_, _)
load_units_loop(us, table) ==
  IF Len(us) = 0 THEN table
  ELSE LET u == Head(us)
           uid == get_id(u.id)
           name == findtext_any_ns(u.name)
           symbol == findtext_any_ns(u.symbol)
           key == unit_key(uid, symbol)
       IN  IF Len(key) = 0
             THEN load_units_loop(Tail(us), table)
             ELSE load_units_loop(Tail(us),
                    Put(table, key, [name |-> or_none(name),
                                     symbol |-> or_none(symbol)]))

(***************************************************************************)
(* load_properties_and_classes                                             *)
(***************************************************************************)
\* name = PreferredName or ShortName
name_of(e) ==
  LET preferred == findtext_any_ns(e.preferred_name)
  IN  IF Len(preferred) > 0 THEN preferred ELSE findtext_any_ns(e.short_name)

\* A loader that probes the two tag names in the opposite order.
class_code_of_legacy_first(c) ==
  LET code == findtext_any_ns(c.class_code)
  IN  IF Len(code) > 0 THEN code
      ELSE findtext_any_ns(c.classification_class_code)

\* class_code = ClassificationClassCode or ClassCode
class_code_of(c) ==
  LET code == findtext_any_ns(c.classification_class_code)
  IN  IF Len(code) > 0 THEN code ELSE findtext_any_ns(c.class_code)

\* for p in _findall_any_ns(root, "PROPERTY"): ... props.setdefault(irdi, {})
RECURSIVE load_properties(_, _)
load_properties(ps, table) ==
  IF Len(ps) = 0 THEN table
  ELSE LET p == Head(ps)
           irdi == findtext_any_ns(p.irdi)
           name == name_of(p)
           unit_ref == findtext_any_ns(p.unit)
           entry0 == IF irdi \in DOMAIN table THEN table[irdi] ELSE EmptyDict
           entry1 == IF Len(name) > 0 THEN Put(entry0, "name", name) ELSE entry0
           entry2 == IF Len(unit_ref) > 0 THEN Put(entry1, "unit_ref", unit_ref)
                     ELSE entry1
       IN  IF Len(irdi) = 0
             THEN load_properties(Tail(ps), table)
             ELSE load_properties(Tail(ps), Put(table, irdi, entry2))

\* for link in _findall_any_ns(c, "ClassPropertyLink"): the PropertyIRDI texts
\* that are not empty, in document order.
RECURSIVE link_irdis(_)
link_irdis(links) ==
  IF Len(links) = 0 THEN <<>>
  ELSE LET p_irdi == findtext_any_ns(Head(links))
       IN  (IF Len(p_irdi) > 0 THEN <<p_irdi>> ELSE <<>>) \o link_irdis(Tail(links))

\* A loader that replaces the entry of a class code met again.
RECURSIVE load_classes_overwrite(_, _)
load_classes_overwrite(cs, table) ==
  IF Len(cs) = 0 THEN table
  ELSE LET c == Head(cs)
           class_code == class_code_of(c)
           fresh == [name |-> name_of(c), properties |-> link_irdis(c.links)]
       IN  IF Len(class_code) = 0
             THEN load_classes_overwrite(Tail(cs), table)
             ELSE load_classes_overwrite(Tail(cs), Put(table, class_code, fresh))

\* for c in _findall_any_ns(root, "CLASS"): ... classes.setdefault(class_code, ...)
RECURSIVE load_classes(_, _)
load_classes(cs, table) ==
  IF Len(cs) = 0 THEN table
  ELSE LET c == Head(cs)
           class_code == class_code_of(c)
           cname == name_of(c)
           entry0 == IF class_code \in DOMAIN table THEN table[class_code]
                     ELSE [name |-> cname, properties |-> <<>>]
           entry1 == IF Len(cname) > 0 THEN [entry0 EXCEPT !.name = cname]
                     ELSE entry0
           entry2 == [entry1 EXCEPT !.properties = @ \o link_irdis(c.links)]
       IN  IF Len(class_code) = 0
             THEN load_classes(Tail(cs), table)
             ELSE load_classes(Tail(cs), Put(table, class_code, entry2))

\* ASSET_DIR: missing, or a directory of files by name; a file matches the glob
\* pattern or not, is well-formed or not, and holds PROPERTY and CLASS elements.
MissingDir == [exists |-> FALSE, files |-> EmptyDict]
Directory(files) == [exists |-> TRUE, files |-> files]

\* ASSET_DIR.glob("ECLASS16_0_ASSET_EN_SG_*.xml"): the matching paths, in an
\* order the file system chooses.
RECURSIVE Orderings(_)
Orderings(S) ==
  IF S = {} THEN {<<>>}
  ELSE UNION {{<<x>> \o s : s \in Orderings(S \ {x})} : x \in S}

glob(dir) == Orderings({n \in DOMAIN dir.files : dir.files[n].matches})

\* A loader that takes the paths as the file system lists them.
sorted_as_listed(paths) == paths

\* sorted(paths)
sorted(paths) == SortSeq(paths, LAMBDA a, b : a < b)

(***************************************************************************)
(* build_part_class_mapping, build_layer_mapping, build_jsonld_context     *)
(***************************************************************************)
\* A value that counts as true: a string that is not None and not empty.
truthy(opt) == opt.some /\ Len(opt.text) > 0

\* A mistaken entry: the unit reference is dropped when it does not resolve.
prop_entry_drop_unresolved(irdi, p, units_table) ==
  LET resolves == "unit_ref" \in DOMAIN p /\ p["unit_ref"] \in DOMAIN units_table
      unit_info == IF resolves THEN units_table[p["unit_ref"]]
                   ELSE [name |-> NoneText, symbol |-> NoneText]
  IN  [irdi |-> irdi,
       name |-> IF "name" \in DOMAIN p THEN SomeText(p["name"]) ELSE NoneText,
       unit |-> IF truthy(unit_info.symbol) THEN unit_info.symbol ELSE unit_info.name,
       unit_ref |-> IF resolves THEN SomeText(p["unit_ref"]) ELSE NoneText]

\* prop_entries[irdi] = {"irdi": ..., "name": ..., "unit": ..., "unit_ref": ...}
\* with unit_ref = p.get("unit_ref") and
\* unit_info = units.get(unit_ref, {}) if unit_ref else {}
prop_entry(irdi, p, units_table) ==
  LET unit_ref == IF "unit_ref" \in DOMAIN p THEN SomeText(p["unit_ref"])
                  ELSE NoneText
      unit_info == IF truthy(unit_ref) /\ unit_ref.text \in DOMAIN units_table
                     THEN units_table[unit_ref.text]
                     ELSE [name |-> NoneText, symbol |-> NoneText]
  IN  [irdi |-> irdi,
       name |-> IF "name" \in DOMAIN p THEN SomeText(p["name"]) ELSE NoneText,
       unit |-> IF truthy(unit_info.symbol) THEN unit_info.symbol ELSE unit_info.name,
       unit_ref |-> unit_ref]

\* A mapping that passes over the unknown property ids only, not the ids with
\* an empty entry.
RECURSIVE prop_entries_keep_empty(_, _, _)
prop_entries_keep_empty(irdis, props_table, units_table) ==
  IF Len(irdis) = 0 THEN EmptyDict
  ELSE LET irdi == irdis[Len(irdis)]
           before == prop_entries_keep_empty(SubSeq(irdis, 1, Len(irdis) - 1),
                                             props_table, units_table)
       IN  IF irdi \notin DOMAIN props_table THEN before
           ELSE Put(before, irdi, prop_entry(irdi, props_table[irdi], units_table))

\* for irdi in cinfo.get("properties", []): p = props.get(irdi, {});
\* if not p: continue
RECURSIVE prop_entries(_, _, _)
prop_entries(irdis, props_table, units_table) ==
  IF Len(irdis) = 0 THEN EmptyDict
  ELSE LET irdi == irdis[Len(irdis)]
           before == prop_entries(SubSeq(irdis, 1, Len(irdis) - 1), props_table,
                                  units_table)
           p == IF irdi \in DOMAIN props_table THEN props_table[irdi] ELSE EmptyDict
       IN  IF DOMAIN p = {} THEN before
           ELSE Put(before, irdi, prop_entry(irdi, p, units_table))

\* A mapping that leaves out the classes without linked properties.
build_part_class_mapping_linked_only(classes_table, props_table, units_table) ==
  [class_code \in {c \in DOMAIN classes_table :
                     Len(classes_table[c].properties) > 0} |->
     [eclass_code |-> class_code,
      eclass_name |-> classes_table[class_code].name,
      properties |-> prop_entries(classes_table[class_code].properties,
                                  props_table, units_table)]]

\* mapping = {}; for class_code, cinfo in classes.items(): mapping[class_code] = ...
build_part_class_mapping(classes_table, props_table, units_table) ==
  [class_code \in DOMAIN classes_table |->
     [eclass_code |-> class_code,
      eclass_name |-> classes_table[class_code].name,
      properties |-> prop_entries(classes_table[class_code].properties,
                                  props_table, units_table)]]

build_layer_mapping ==
  [identity |-> [global_ids |-> "schema:identifier", make_model |-> "schema:Product"],
   structure |-> [hierarchy |-> "eclass:ProductStructure", parts |-> "eclass:Component"],
   lifecycle |-> EmptyDict,
   risk |-> EmptyDict,
   sustainability |-> EmptyDict,
   provenance |-> EmptyDict]

build_jsonld_context ==
  [context |-> [eclass |-> "http://www.eclass.eu/",
                schema |-> "http://schema.org/",
                identifier |-> "schema:identifier",
                component |-> "eclass:Component",
                productStructure |-> "eclass:ProductStructure"]]

\* yaml.safe_dump(data, sort_keys=False, ...): the top-level sections of data in
\* insertion order, each the text of its key and value.
safe_dump(pm) ==
  <<[key |-> "schema_info",
     value |-> [version |-> "16.0",
                description |-> "Auto-generated ECLASS 16.0 mapping for DPP (generic, class-based)"]],
    [key |-> "part_class_mapping", value |-> pm],
    [key |-> "layer_mapping", value |-> build_layer_mapping],
    [key |-> "jsonld_context", value |-> build_jsonld_context]>>

(***************************************************************************)
(* main, step by step, and a reader of the file main writes.               *)
(***************************************************************************)
\* A file that does not exist, and OUT as an earlier build left it.
NoFile == [exists |-> FALSE, content |-> <<>>]
File(content) == [exists |-> TRUE, content |-> content]
OldPartMap ==
  build_part_class_mapping(
    <<"o">> :> [name |-> <<"o", "l", "d">>, properties |-> <<>>],
    EmptyDict, EmptyDict)
OldArtifact == File(safe_dump(OldPartMap))

NotLoaded == [loaded |-> FALSE, exists |-> FALSE, content |-> <<>>]

\* No earlier run of the loader, and the result of one.
NoEarlier == [done |-> FALSE, classes |-> EmptyDict, props |-> EmptyDict, listing |-> <<>>]
Earlier(cs, ps, l) == [done |-> TRUE, classes |-> cs, props |-> ps, listing |-> l]
Loaded(file) == [loaded |-> TRUE, exists |-> file.exists, content |-> file.content]

NoBuildOutcome == [kind |-> "none", type |-> "", raised_by |-> ""]
BuildReturned == [kind |-> "returned", type |-> "", raised_by |-> ""]
BuildRaised(type, by) == [kind |-> "raised", type |-> type, raised_by |-> by]

\* A build that skips the first check of main.
main_asset_dir_missing_unchecked(dir) == FALSE

\* if not ASSET_DIR.exists(): raise FileNotFoundError(...)
main_asset_dir_missing(dir) == ~dir.exists

\* What the build reads and never changes.
inputs == <<units_file, asset_dir, artifact0, entry>>

Raises(type, by) ==
  /\ bpc' = "done"
  /\ build_outcome' = BuildRaised(type, by)

Continues(next) ==
  /\ bpc' = next
  /\ UNCHANGED build_outcome

MainCheckAssetDir ==
  /\ bpc = "main"
  /\ IF main_asset_dir_missing(asset_dir)
       THEN Raises("FileNotFoundError", "main")
       ELSE Continues("main_check_units_file")
  /\ UNCHANGED <<inputs, out_dir, artifact, pending, units, classes, props,
                 part_map, parsed, completed, observed>>
  /\ UNCHANGED <<mvars, pvars, dvars, listing, earlier>>

\* if not UNITS_FILE.exists(): raise FileNotFoundError(...)
MainCheckUnitsFile ==
  /\ bpc = "main_check_units_file"
  /\ IF ~units_file.exists
       THEN Raises("FileNotFoundError", "main")
       ELSE Continues("load_units")
  /\ UNCHANGED <<inputs, out_dir, artifact, pending, units, classes, props,
                 part_map, parsed, completed, observed>>
  /\ UNCHANGED <<mvars, pvars, dvars, listing, earlier>>

\* load_units: units = {}; if not UNITS_FILE.exists(): raise FileNotFoundError
LoadUnitsCheck ==
  /\ bpc = "load_units"
  /\ units' = EmptyDict
  /\ IF ~units_file.exists
       THEN Raises("FileNotFoundError", "load_units")
       ELSE Continues("load_units_parse")
  /\ UNCHANGED <<inputs, out_dir, artifact, pending, classes, props, part_map,
                 parsed, completed, observed>>
  /\ UNCHANGED <<mvars, pvars, dvars, listing, earlier>>

\* load_units: tree = ET.parse(UNITS_FILE); the loop; return units
LoadUnitsParse ==
  /\ bpc = "load_units_parse"
  /\ parsed' = parsed + 1
  /\ IF ~units_file.well_formed
       THEN /\ Raises("ParseError", "load_units")
            /\ UNCHANGED <<units, completed>>
       ELSE /\ units' = load_units_loop(units_file.units, units)
            /\ completed' = completed \cup {"load_units"}
            /\ IF entry = "load_units"
                 THEN bpc' = "done" /\ build_outcome' = BuildReturned
                 ELSE Continues("load_properties_and_classes")
  /\ UNCHANGED <<inputs, out_dir, artifact, pending, classes, props, part_map,
                 observed>>
  /\ UNCHANGED <<mvars, pvars, dvars, listing, earlier>>

\* load_properties_and_classes: props = {}; classes = {}; the check of ASSET_DIR;
\* sorted(ASSET_DIR.glob(...))
LoadPropertiesCheck ==
  /\ bpc = "load_properties_and_classes"
  /\ props' = EmptyDict
  /\ classes' = EmptyDict
  /\ IF ~asset_dir.exists
       THEN /\ Raises("FileNotFoundError", "load_properties_and_classes")
            /\ UNCHANGED <<pending, listing>>
       ELSE /\ \E paths \in glob(asset_dir) :
                 /\ listing' = paths
                 /\ pending' = sorted(paths)
            /\ Continues("parse_asset")
  /\ UNCHANGED <<inputs, out_dir, artifact, units, part_map, parsed, completed,
                 observed>>
  /\ UNCHANGED <<mvars, pvars, dvars, earlier>>

\* One round of the loop over the paths: ET.parse(xml_path), the PROPERTY
\* elements, the CLASS elements.
ParseAssetDocument ==
  /\ bpc = "parse_asset"
  /\ Len(pending) > 0
  /\ parsed' = parsed + 1
  /\ LET doc == asset_dir.files[Head(pending)]
     IN  IF ~doc.well_formed
           THEN /\ Raises("ParseError", "load_properties_and_classes")
                /\ UNCHANGED <<pending, props, classes>>
           ELSE /\ props' = load_properties(doc.properties, props)
                /\ classes' = load_classes(doc.classes, classes)
                /\ pending' = Tail(pending)
                /\ Continues("parse_asset")
  /\ UNCHANGED <<inputs, out_dir, artifact, units, part_map, completed, observed>>
  /\ UNCHANGED <<mvars, pvars, dvars, listing, earlier>>

\* return classes, props
LoadPropertiesReturn ==
  /\ bpc = "parse_asset"
  /\ Len(pending) = 0
  /\ completed' = completed \cup {"load_properties_and_classes"}
  /\ IF entry = "load_properties_and_classes"
       THEN bpc' = "done" /\ build_outcome' = BuildReturned
       ELSE Continues("build_part_class_mapping")
  /\ UNCHANGED <<inputs, out_dir, artifact, pending, units, classes, props,
                 part_map, parsed, observed>>
  /\ UNCHANGED <<mvars, pvars, dvars, listing, earlier>>

\* part_map = build_part_class_mapping(classes, props, units)
BuildPartClassMapping ==
  /\ bpc = "build_part_class_mapping"
  /\ part_map' = build_part_class_mapping(classes, props, units)
  /\ completed' = completed \cup {"build_part_class_mapping"}
  /\ IF entry = "build_part_class_mapping"
       THEN bpc' = "done" /\ build_outcome' = BuildReturned
       ELSE Continues("mkdir")
  /\ UNCHANGED <<inputs, out_dir, artifact, pending, units, classes, props,
                 parsed, observed>>
  /\ UNCHANGED <<mvars, pvars, dvars, listing, earlier>>

\* OUT.parent.mkdir(exist_ok=True)
MakeOutDir ==
  /\ bpc = "mkdir"
  /\ out_dir' = TRUE
  /\ Continues("write_text")
  /\ UNCHANGED <<inputs, artifact, pending, units, classes, props, part_map,
                 parsed, completed, observed>>
  /\ UNCHANGED <<mvars, pvars, dvars, listing, earlier>>

\* OUT.write_text(...): open(OUT, "w") creates the file or cuts it to length 0.
WriteOpen ==
  /\ bpc = "write_text"
  /\ artifact' = File(<<>>)
  /\ Continues("write")
  /\ UNCHANGED <<inputs, out_dir, pending, units, classes, props, part_map,
                 parsed, completed, observed>>
  /\ UNCHANGED <<mvars, pvars, dvars, listing, earlier>>

\* f.write(data): the buffer is full and a part of the text reaches the file.
WriteFlush ==
  /\ bpc = "write"
  /\ LET data == safe_dump(part_map)
     IN  \E n \in Len(artifact.content) + 1 .. Len(data) - 1 :
           artifact' = File(SubSeq(data, 1, n))
  /\ Continues("write")
  /\ UNCHANGED <<inputs, out_dir, pending, units, classes, props, part_map,
                 parsed, completed, observed>>
  /\ UNCHANGED <<mvars, pvars, dvars, listing, earlier>>

\* The file is closed: the rest of the text reaches it; main returns.
WriteClose ==
  /\ bpc = "write"
  /\ artifact' = File(safe_dump(part_map))
  /\ bpc' = "done"
  /\ build_outcome' = BuildReturned
  /\ UNCHANGED <<inputs, out_dir, pending, units, classes, props, part_map,
                 parsed, completed, observed>>
  /\ UNCHANGED <<mvars, pvars, dvars, listing, earlier>>

\* Another process loads OUT.
ReaderLoad ==
  /\ entry = "main"
  /\ observed' = Loaded(artifact)
  /\ UNCHANGED <<inputs, out_dir, artifact, bpc, pending, units, classes, props,
                 part_map, parsed, completed, build_outcome>>
  /\ UNCHANGED <<mvars, pvars, dvars, listing, earlier>>

\* load_properties_and_classes, having returned, is called once more on the
\* same directory; what the first call returned is kept for comparison.
CallAgain ==
  /\ entry = "load_properties_and_classes"
  /\ bpc = "done"
  /\ build_outcome = BuildReturned
  /\ ~earlier.done
  /\ earlier' = Earlier(classes, props, listing)
  /\ bpc' = entry
  /\ build_outcome' = NoBuildOutcome
  /\ parsed' = 0
  /\ completed' = {}
  /\ listing' = <<>>
  /\ UNCHANGED <<inputs, out_dir, artifact, pending, units, classes, props,
                 part_map, observed>>
  /\ UNCHANGED <<mvars, pvars, dvars>>

\* No function of eclass_build_mapping.py has been called.
BuildIdle ==
  /\ units_file = MissingFile
  /\ asset_dir = MissingDir
  /\ out_dir = FALSE
  /\ artifact = NoFile
  /\ artifact0 = NoFile
  /\ entry = "none"
  /\ bpc = "done"
  /\ pending = <<>>
  /\ units = EmptyDict
  /\ classes = EmptyDict
  /\ props = EmptyDict
  /\ part_map = EmptyDict
  /\ parsed = 0
  /\ completed = {}
  /\ build_outcome = NoBuildOutcome
  /\ observed = NotLoaded
  /\ listing = <<>>
  /\ earlier = NoEarlier

(***************************************************************************)
(* The Domain Binder (keyword strategy).                                   *)
(***************************************************************************)
\* The category ids, in the order of the entity table, and the item ids.
CategoryIds == <<"C1", "C2">>
ItemLists == {<<1>>, <<2, 1>>, <<3, 2>>}

\* Definition texts (the empty one included) and keyword lists of a domain part
\* class.
Definitions ==
  {<<>>, <<"A">>, <<"b">>, <<"a", "b">>, <<"b", "A">>}
KeywordLists ==
  {{}, {<<>>}, {<<"a">>}, {<<"a", "b">>, <<"b", "a">>}}

\* str.lower()
lower(t) ==
  [i \in 1 .. Len(t) |->
     CASE t[i] = "A" -> "a"
       [] t[i] = "B" -> "b"
       [] OTHER -> t[i]]

\* k is a substring of t
IsSubstring(k, t) ==
  \E i \in 0 .. Len(t) - Len(k) : SubSeq(t, i + 1, i + Len(k)) = k

\* A binder for which the empty definition matches like any other.
matches_any_definition(kws, definition) ==
  \E k \in kws : IsSubstring(k, lower(definition))

\* matches(domain_class): some configured keyword is a substring of the
\* lowercased definition text; an empty definition matches nothing.
matches(kws, definition) ==
  /\ Len(definition) > 0
  /\ \E k \in kws : IsSubstring(k, lower(definition))

\* The reverse-index lookup of a category.
lookup(index, c) == IF c \in DOMAIN index THEN index[c] ELSE <<>>

\* The lookups of the matched categories, one after the other.
RECURSIVE collect(_, _, _)
collect(cs, matched, index) ==
  IF Len(cs) = 0 THEN <<>>
  ELSE (IF Head(cs) \in matched THEN lookup(index, Head(cs)) ELSE <<>>)
         \o collect(Tail(cs), matched, index)

\* A sequence without the repetitions of its elements.
RECURSIVE unique(_)
unique(seq) ==
  IF Len(seq) = 0 THEN <<>>
  ELSE LET rest == unique(SubSeq(seq, 1, Len(seq) - 1))
           last == seq[Len(seq)]
       IN  IF last \in Range(rest) THEN rest ELSE Append(rest, last)

\* A binder that leaves the item ids in the order of discovery.
derive_item_ids_as_found(matched, index) ==
  unique(collect(CategoryIds, matched, index))

\* matched_item_ids: the union of the lookups, sorted.
derive_item_ids(matched, index) ==
  SortSeq(unique(collect(CategoryIds, matched, index)), LAMBDA a, b : a < b)

\* The binder looks at the next CATEGORY entity.
BindCategory ==
  /\ binder_pc = "scan"
  /\ Len(todo) > 0
  /\ matched_category_ids' =
       IF matches(keywords, entities[Head(todo)])
         THEN matched_category_ids \cup {Head(todo)}
         ELSE matched_category_ids
  /\ todo' = Tail(todo)
  /\ UNCHANGED <<entities, reverse_index, keywords, matched_item_ids, binder_pc>>
  /\ UNCHANGED <<mvars, pvars, bvars>>

\* All categories seen: matched_item_ids is derived and the entry is stored.
BindItems ==
  /\ binder_pc = "scan"
  /\ Len(todo) = 0
  /\ matched_item_ids' = derive_item_ids(matched_category_ids, reverse_index)
  /\ binder_pc' = "done"
  /\ UNCHANGED <<entities, reverse_index, keywords, todo, matched_category_ids>>
  /\ UNCHANGED <<mvars, pvars, bvars>>

\* The binder has not been called.
BinderIdle ==
  /\ entities = EmptyDict
  /\ reverse_index = EmptyDict
  /\ keywords = {}
  /\ todo = <<>>
  /\ matched_category_ids = {}
  /\ matched_item_ids = <<>>
  /\ binder_pc = "idle"

\* The adapter after SchemaMapper.__init__(config).
MapperInit ==
  /\ config_arg \in ConfigArgs
  /\ config = init_config(config_arg)
  /\ pc = "idle"
  /\ dpp = 0
  /\ mapped = EmptyDict
  /\ calls = <<"get_schema_name">>
  /\ validate_arg = EmptyDict
  /\ verdict = NoVerdict
  /\ thrown = NoExc
  /\ exc = NoExc
  /\ outcome = NoOutcome
  /\ layer_fn = EmptyDict
  /\ validate_fn = EmptyDict
  /\ first_outcome = [r \in Records |-> NoOutcome]
  /\ repeated = "first"

\* The part of usage.py: an Actuator with every field set.
PartInit(ps) ==
  /\ \E p \in ps :
       /\ part = [cls |-> p.cls, obj |-> p.obj]
       /\ heap = p.heap
       /\ part_heap = p.heap
  /\ touched = {}

Init ==
  MapperInit /\ PartInit({MakePart("Actuator", 0, TRUE)}) /\ BuildIdle /\ BinderIdle

Next ==
  \/ \E r \in Records : MapDppStart(r)
  \/ EvalSchemaName
  \/ EvalSchemaVersion
  \/ EvalContext
  \/ MapLayerReturns
  \/ MapLayerRaises
  \/ ValidateReturns
  \/ ValidateRaises
  \/ RaiseValidationError
  \/ ReturnMapped
  \/ ExceptHandler
  \/ \E key \in ConfigKeys, default \in ConfigDefaults : GetMappingConfig(key, default)
  \/ Repr
  \/ MapPartClass

Spec == Init /\ [][Next]_vars

(***************************************************************************)
(* SpecPart: map_part_class applied to every part of the bounded set, and  *)
(* the caller changing the dict it got back.                               *)
(***************************************************************************)
InitPart ==
  /\ MapperInit
  /\ config_arg = NoneArg
  /\ PartInit(Parts)
  /\ BuildIdle
  /\ BinderIdle

NextPart ==
  \/ MapPartClass
  \/ \E f \in ContainerFields : MutateResult(f)

SpecPart == InitPart /\ [][NextPart]_vars

(***************************************************************************)
(* SpecUnits: load_units applied to every units file of the bounded set.   *)
(***************************************************************************)
\* The other modules at rest.
MapperIdle ==
  /\ MapperInit
  /\ config_arg = NoneArg
  /\ PartInit({MakePart("Actuator", 0, TRUE)})
  /\ BinderIdle

\* The state at the call of function f of eclass_build_mapping.py.
BuildCalled(f) ==
  /\ entry = f
  /\ bpc = f
  /\ artifact = artifact0
  /\ pending = <<>>
  /\ units = EmptyDict
  /\ classes = EmptyDict
  /\ props = EmptyDict
  /\ part_map = EmptyDict
  /\ parsed = 0
  /\ completed = {}
  /\ build_outcome = NoBuildOutcome
  /\ observed = NotLoaded
  /\ listing = <<>>
  /\ earlier = NoEarlier

InitUnits ==
  /\ MapperIdle
  /\ units_file \in UnitsFiles
  /\ asset_dir = MissingDir
  /\ out_dir = FALSE
  /\ artifact0 = NoFile
  /\ BuildCalled("load_units")

NextUnits ==
  \/ LoadUnitsCheck
  \/ LoadUnitsParse

SpecUnits == InitUnits /\ [][NextUnits]_vars

(***************************************************************************)
(* SpecBuild: main, or one of the two loaders called on its own, run on     *)
(* sample inputs, with a reader of OUT beside main.                        *)
(***************************************************************************)
\* Units files with at most one Unit element.
BuildUnitsFiles ==
  {MissingFile, MalformedUnitsFile, UnitsDocument(<<>>)}
    \cup {UnitsDocument(<<u>>) : u \in UnitElements}

\* A property with a unit reference, and a class linked to it and to a property
\* no document defines.
SampleProperty ==
  [irdi |-> Found(<<"p">>), preferred_name |-> Found(<<" ", "l">>),
   short_name |-> Absent, unit |-> Found(<<"a">>)]
SampleClass ==
  [classification_class_code |-> Absent, class_code |-> Found(<<"c">>),
   preferred_name |-> Absent, short_name |-> Found(<<"k">>),
   links |-> <<Found(<<"p">>), Found(<<"q">>)>>]

SampleDocument ==
  [matches |-> TRUE, well_formed |-> TRUE,
   properties |-> <<SampleProperty>>, classes |-> <<SampleClass>>]
MalformedDocument ==
  [matches |-> TRUE, well_formed |-> FALSE, properties |-> <<>>, classes |-> <<>>]
OtherFile ==
  [matches |-> FALSE, well_formed |-> FALSE, properties |-> <<>>, classes |-> <<>>]

\* A document that also holds a PROPERTY without IRDI and a CLASS whose code is
\* under neither of the tag names the loader looks for.
UnkeyedProperty ==
  [irdi |-> Absent, preferred_name |-> Found(<<"l">>), short_name |-> Absent,
   unit |-> Found(<<"a">>)]
UnkeyedClass ==
  [classification_class_code |-> Absent, class_code |-> Absent,
   preferred_name |-> Found(<<"k">>), short_name |-> Absent,
   links |-> <<Found(<<"p">>)>>]
PartlyReadDocument ==
  [matches |-> TRUE, well_formed |-> TRUE,
   properties |-> <<SampleProperty, UnkeyedProperty>>,
   classes |-> <<UnkeyedClass, SampleClass>>]

BuildAssetDirs ==
  {MissingDir,
   Directory(1 :> PartlyReadDocument),
   Directory(EmptyDict),
   Directory(1 :> SampleDocument),
   Directory(1 :> OtherFile @@ 2 :> SampleDocument),
   Directory(1 :> SampleDocument @@ 2 :> MalformedDocument)}

EntryPoints == {"main", "load_units", "load_properties_and_classes"}

InitBuild ==
  /\ MapperIdle
  /\ units_file \in BuildUnitsFiles
  /\ asset_dir \in BuildAssetDirs
  /\ artifact0 \in {NoFile, OldArtifact}
  /\ out_dir \in BOOLEAN
  /\ artifact0.exists => out_dir
  /\ \E f \in EntryPoints : BuildCalled(f)

NextBuild ==
  \/ MainCheckAssetDir
  \/ MainCheckUnitsFile
  \/ LoadUnitsCheck
  \/ LoadUnitsParse
  \/ LoadPropertiesCheck
  \/ ParseAssetDocument
  \/ LoadPropertiesReturn
  \/ BuildPartClassMapping
  \/ MakeOutDir
  \/ WriteOpen
  \/ WriteFlush
  \/ WriteClose
  \/ ReaderLoad

SpecBuild == InitBuild /\ [][NextBuild]_vars

(***************************************************************************)
(* SpecMapping: build_part_class_mapping applied to every triple of tables *)
(* of the bounded sets.                                                    *)
(***************************************************************************)
MappingCodes == {<<"c">>, <<"d">>}
MappingIrdis == {<<"p">>, <<"q">>}
MappingUnitRefs == {<<"a">>, <<"b">>}
MappingUnitKeys == {<<"a">>}

\* The tables with keys among K and entries among E.
Tables(K, E) == UNION {[J -> E] : J \in SUBSET K}

\* Entries as load_properties_and_classes and load_units build them.
ClassTableEntries ==
  [name : {<<>>, <<"k">>}, properties : SeqsUpTo(MappingIrdis, MaxLinks)]
PropTableEntries ==
  {EmptyDict, "name" :> <<"l">>}
    \cup {"unit_ref" :> r : r \in MappingUnitRefs}
    \cup {("name" :> <<"l">>) @@ ("unit_ref" :> r) : r \in MappingUnitRefs}
UnitTableEntries ==
  [name : {NoneText, SomeText(<<"m">>)}, symbol : {NoneText, SomeText(<<"s">>)}]

InitMapping ==
  /\ MapperIdle
  /\ units_file = MissingFile
  /\ asset_dir = MissingDir
  /\ out_dir = FALSE
  /\ artifact0 = NoFile
  /\ artifact = NoFile
  /\ entry = "build_part_class_mapping"
  /\ bpc = "build_part_class_mapping"
  /\ pending = <<>>
  /\ classes \in Tables(MappingCodes, ClassTableEntries)
  /\ props \in Tables(MappingIrdis, PropTableEntries)
  /\ units \in Tables(MappingUnitKeys, UnitTableEntries)
  /\ part_map = EmptyDict
  /\ parsed = 0
  /\ completed = {}
  /\ build_outcome = NoBuildOutcome
  /\ observed = NotLoaded
  /\ listing = <<>>
  /\ earlier = NoEarlier

NextMapping == BuildPartClassMapping

SpecMapping == InitMapping /\ [][NextMapping]_vars

(***************************************************************************)
(* SpecParse: load_properties_and_classes called, and called again, on     *)
(* every directory of the bounded set.                                     *)
(***************************************************************************)
\* PROPERTY elements: with and without identifier, name, short name and unit.
PropertyElements ==
  {[irdi |-> Absent, preferred_name |-> Found(<<"l">>), short_name |-> Absent,
    unit |-> Found(<<"a">>)],
   [irdi |-> Found(<<"p">>), preferred_name |-> Found(<<"l">>), short_name |-> Absent,
    unit |-> Absent],
   [irdi |-> Found(<<" ", "p">>), preferred_name |-> Found(<<" ">>),
    short_name |-> Found(<<"s">>), unit |-> Found(<<"a">>)],
   [irdi |-> Found(<<"p">>), preferred_name |-> Absent, short_name |-> Absent,
    unit |-> Found(<<"b">>)],
   [irdi |-> Found(<<"p">>), preferred_name |-> Absent, short_name |-> Absent,
    unit |-> Absent]}

\* CLASS elements: the code under either tag name, both or none; with and
\* without a name; with and without links.
ClassElements ==
  [classification_class_code : {Absent, Found(<<"c">>)},
   class_code : {Absent, Found(<<"d">>)},
   preferred_name : {Found(<<"k">>)},
   short_name : {Absent},
   links : {<<Found(<<"p">>)>>}]
  \cup
  [classification_class_code : {Found(<<" ">>)},
   class_code : {Found(<<"c", " ">>)},
   preferred_name : {Absent, Found(<<"j">>)},
   short_name : {Absent},
   links : {<<>>, <<Found(<<"q">>), Found(<<" ">>)>>}]

AssetDocuments ==
  {[matches |-> TRUE, well_formed |-> TRUE, properties |-> ps, classes |-> cs] :
     ps \in SeqsUpTo(PropertyElements, MaxElements),
     cs \in SeqsUpTo(ClassElements, MaxElements)}

ParseFiles ==
  {d \in AssetDocuments : Len(d.properties) + Len(d.classes) <= MaxElements}
    \cup {MalformedDocument, OtherFile}

\* Directories of up to two files.
ParseAssetDirs ==
  {Directory(fs) : fs \in UNION {[J -> ParseFiles] : J \in {{}, {1}, {1, 2}}}}

InitParse ==
  /\ MapperIdle
  /\ units_file = MissingFile
  /\ asset_dir \in ParseAssetDirs
  /\ out_dir = FALSE
  /\ artifact0 = NoFile
  /\ BuildCalled("load_properties_and_classes")

NextParse ==
  \/ LoadPropertiesCheck
  \/ ParseAssetDocument
  \/ LoadPropertiesReturn
  \/ CallAgain

SpecParse == InitParse /\ [][NextParse]_vars

(***************************************************************************)
(* SpecBinder: the keyword strategy applied to every entity table, reverse *)
(* index and keyword list of the bounded sets.                             *)
(***************************************************************************)
InitBinder ==
  /\ MapperInit
  /\ config_arg = NoneArg
  /\ PartInit({MakePart("Actuator", 0, TRUE)})
  /\ BuildIdle
  /\ entities \in Tables(Range(CategoryIds), Definitions)
  /\ reverse_index \in Tables(Range(CategoryIds), ItemLists)
  /\ keywords \in KeywordLists
  /\ todo = SelectSeq(CategoryIds, LAMBDA c : c \in DOMAIN entities)
  /\ matched_category_ids = {}
  /\ matched_item_ids = <<>>
  /\ binder_pc = "scan"

NextBinder ==
  \/ BindCategory
  \/ BindItems

SpecBinder == InitBinder /\ [][NextBinder]_vars

(***************************************************************************)
(* Properties of map_part_class (checked under SpecPart).                  *)
(***************************************************************************)
\* The fields part_class.py declares for a class, the base class's included.
DeclaredFields(cls) == Range(BaseFields) \cup Range(OwnFields(cls))

\* C7: the dict map_part_class returns has exactly the part's declared fields as
\* keys, each with the part's value; its containers are copies (other objects
\* with the same entries); and the part's own containers stay as they were,
\* also when the caller changes the returned dict.
C7_IdentityProjection ==
  /\ \A a \in Cells(part.obj) : heap[a] = part_heap[a]
  /\ DOMAIN part.obj = DeclaredFields(part.cls)
  /\ outcome.op = "map_part_class" =>
       /\ DOMAIN outcome.value = DeclaredFields(part.cls)
       /\ \A f \in DeclaredFields(part.cls) :
            IF part.obj[f].tag = "ref"
              THEN /\ outcome.value[f].tag = "ref"
                   /\ outcome.value[f].v \notin Cells(part.obj)
                   /\ f \notin touched =>
                        heap[outcome.value[f].v] = part_heap[part.obj[f].v]
              ELSE outcome.value[f] = part.obj[f]

C7_Witness ==
  /\ outcome.op = "map_part_class"
  /\ part.cls = "UserInterface"
  /\ part.obj["input_methods"].tag = "ref"
  /\ part.obj["ui_type"].tag = "scalar"
  /\ Len(part_heap[part.obj["properties"].v]) > 0
  /\ touched = {"properties", "input_methods"}

(***************************************************************************)
(* Properties of SchemaMapper (checked under Spec).                        *)
(***************************************************************************)
\* A map_dpp call has ended.
MapDppDone == pc = "idle" /\ outcome.op = "map_dpp"

\* validate_mapping returned is_valid = False in the most recent call.
Invalid == verdict.kind = "return" /\ ~verdict.is_valid

\* The layer mappers in the order the specification gives.
DocumentedMappers ==
  <<"map_identity_layer", "map_structure_layer", "map_lifecycle_layer",
    "map_risk_layer", "map_sustainability_layer", "map_provenance_layer">>

\* The nine keys of the assembled document.
DocumentedKeys ==
  {"schema", "schema_version", "@context", "identity", "structure",
   "lifecycle", "risk", "sustainability", "provenance"}

IsMapper(op) == \E i \in 1 .. Len(DocumentedMappers) : DocumentedMappers[i] = op

IsValidate(op) == op = "validate_mapping"

\* C1: when validate_mapping returns is_valid = False, map_dpp never returns a
\* document: it ends by raising the ValueError it created, with no document.
C1_InvalidRaisesValueError ==
  Invalid =>
    /\ outcome.kind # "returned"
    /\ pc = "idle" =>
         /\ outcome.op = "map_dpp"
         /\ outcome.kind = "raised"
         /\ outcome.exc.type = "ValueError"
         /\ outcome.exc.raised_by = "map_dpp"
         /\ outcome.value = EmptyDict

C1_Witness == MapDppDone /\ Invalid /\ outcome.kind = "raised"

\* C2: when validate_mapping returns invalid with n >= 2 messages, the raised
\* error's text is "Validation failed: " followed by all n messages in the
\* order returned, each two separated by "; ".
C2_AllViolationsReported ==
  (MapDppDone /\ Invalid /\ Len(verdict.errors) >= 2) =>
    LET n == Len(verdict.errors)
        m == outcome.exc.msg
    IN  /\ Len(m) = 2 * n
        /\ m[1] = "Validation failed: "
        /\ \A i \in 1 .. n : m[2 * i] = verdict.errors[i]
        /\ \A i \in 1 .. n - 1 : m[2 * i + 1] = "; "

C2_Witness ==
  MapDppDone /\ Invalid /\ Len(verdict.errors) >= 2 /\ outcome.kind = "raised"

C5_Deterministic ==
  MapDppDone => outcome = first_outcome[dpp]

C5_Witness ==
  /\ MapDppDone
  /\ repeated = "interleaved"
  /\ \E r \in Records : first_outcome[r].kind = "returned"
  /\ \E r \in Records : first_outcome[r].kind = "raised"

\* C6: the configuration is at all times the one the constructor set: the given
\* dict, or an empty one when None was given.
C6_ConfigUnchanged ==
  config = (IF config_arg.is_none THEN EmptyDict ELSE config_arg.dict)

C6_Witness ==
  /\ pc = "idle"
  /\ outcome.op = "get_mapping_config"
  /\ outcome.value = "default"
  /\ \E r \in Records : first_outcome[r].kind = "returned"
  /\ \E r \in Records : first_outcome[r].kind = "raised"

\* C18: map_dpp returns the assembled document exactly when the six layer mappers
\* returned and validate_mapping returned is_valid = True, whatever the message
\* list holds; with is_valid = False and no message it raises the ValueError
\* whose text is "Validation failed: " and nothing more.
C18_FlagAloneDecides ==
  MapDppDone =>
    /\ outcome.kind = "returned" <=>
         /\ \A i \in 1 .. Len(DocumentedMappers) : DocumentedMappers[i] \in Range(calls)
         /\ ~IsMapper(thrown.raised_by)
         /\ verdict.kind = "return"
         /\ verdict.is_valid
    /\ outcome.kind = "returned" => outcome.value = validate_arg
    /\ (Invalid /\ Len(verdict.errors) = 0) =>
         /\ outcome.kind = "raised"
         /\ outcome.exc.type = "ValueError"
         /\ outcome.exc.msg = <<"Validation failed: ">>

\* validate_mapping returned True together with messages, and map_dpp returned.
C18_Witness ==
  /\ MapDppDone
  /\ verdict.kind = "return"
  /\ verdict.is_valid
  /\ Len(verdict.errors) > 0
  /\ outcome.kind = "returned"

(***************************************************************************)
(* Properties of load_units (checked under SpecUnits).                     *)
(***************************************************************************)
UnitsLoaded ==
  entry = "load_units" /\ bpc = "done" /\ build_outcome.kind = "returned"

\* The lookup found a text that is not blank.
HasText(found) ==
  found.present /\ \E i \in 1 .. Len(found.text) : found.text[i] # " "

\* k is t without the blanks at its two ends.
IsTrimOf(k, t) ==
  /\ Len(k) > 0 => (k[1] # " " /\ k[Len(k)] # " ")
  /\ \E a \in 0 .. Len(t) :
       /\ a + Len(k) <= Len(t)
       /\ SubSeq(t, a + 1, a + Len(k)) = k
       /\ \A i \in 1 .. Len(t) : (i <= a \/ i > a + Len(k)) => t[i] = " "

\* The element is keyed by k: by its identifier if it has one, else by its symbol.
KeyedBy(u, k) ==
  /\ Len(k) > 0
  /\ IF HasText(u.id) THEN IsTrimOf(k, u.id.text)
     ELSE HasText(u.symbol) /\ IsTrimOf(k, u.symbol.text)

\* The field of a table entry holds the text found, None when it is empty.
FieldHolds(opt, found) ==
  IF HasText(found) THEN opt.some /\ IsTrimOf(opt.text, found.text)
  ELSE opt = NoneText

\* C10: load_units returns a table in which every Unit element with an
\* identifier is keyed by that identifier, an element without identifier but
\* with a symbol is keyed by the symbol, and an element with neither is absent;
\* each entry has exactly the fields name and symbol, holding the name and symbol
\* of the (last) element with that key, None when empty.
C10_UnitsKeyedByIdOrSymbol ==
  UnitsLoaded =>
    LET us == units_file.units
    IN  /\ \A i \in 1 .. Len(us) :
             /\ HasText(us[i].id) =>
                  \E k \in DOMAIN units : IsTrimOf(k, us[i].id.text)
             /\ (~HasText(us[i].id) /\ HasText(us[i].symbol)) =>
                  \E k \in DOMAIN units : IsTrimOf(k, us[i].symbol.text)
        /\ \A k \in DOMAIN units :
             /\ DOMAIN units[k] = {"name", "symbol"}
             /\ \E i \in 1 .. Len(us) :
                  /\ KeyedBy(us[i], k)
                  /\ \A j \in i + 1 .. Len(us) : ~KeyedBy(us[j], k)
                  /\ FieldHolds(units[k].name, us[i].name)
                  /\ FieldHolds(units[k].symbol, us[i].symbol)

\* A document with an element keyed by its padded identifier, holding a symbol and
\* no name, and an element without identifier keyed by its symbol.
C10_Witness ==
  /\ UnitsLoaded
  /\ Len(units_file.units) = 2
  /\ units_file.units[1].id = Found(<<" ", "b", " ">>)
  /\ units_file.units[1].name = Found(<<" ">>)
  /\ units_file.units[1].symbol = Found(<<"a">>)
  /\ ~units_file.units[2].id.present
  /\ units_file.units[2].symbol = Found(<<"a">>)
  /\ DOMAIN units = {<<"a">>, <<"b">>}
  /\ units[<<"b">>] = [name |-> NoneText, symbol |-> SomeText(<<"a">>)]

(***************************************************************************)
(* Properties of main (checked under SpecBuild).                          *)
(***************************************************************************)
Loaders == {"load_units", "load_properties_and_classes", "build_part_class_mapping"}

\* A resource the called function reads does not exist.
MissingResource ==
  CASE entry = "load_units" -> ~units_file.exists
    [] entry = "load_properties_and_classes" -> ~asset_dir.exists
    [] OTHER -> ~units_file.exists \/ ~asset_dir.exists

\* C8: when the units document or the classification directory does not exist,
\* the build (main, or the loader of the missing resource called on its own)
\* ends with FileNotFoundError, no document is parsed and OUT stays as it was;
\* and OUT differs from what it was only in main, when load_units,
\* load_properties_and_classes and build_part_class_mapping have all returned
\* and nothing was raised before.
C8_MissingInputFailsBeforeWrite ==
  /\ MissingResource =>
       /\ parsed = 0
       /\ artifact = artifact0
       /\ bpc = "done" => build_outcome = BuildRaised("FileNotFoundError", entry)
  /\ artifact # artifact0 =>
       /\ entry = "main"
       /\ Loaders \subseteq completed
       /\ build_outcome.kind # "raised"

\* main has ended on a missing classification directory beside a units document
\* that exists, with the older OUT still in place.
C8_Witness ==
  /\ entry = "main"
  /\ bpc = "done"
  /\ ~asset_dir.exists
  /\ units_file.exists
  /\ build_outcome.type = "FileNotFoundError"
  /\ artifact0 = OldArtifact
  /\ artifact = OldArtifact

\* C9: whenever a reader loads OUT it finds either all of the content OUT had
\* before the build or all of the new content, never an empty or partial file.
C9_ReaderSeesWholeArtifact ==
  observed.loaded =>
    \/ observed = Loaded(artifact0)
    \/ /\ "build_part_class_mapping" \in completed
       /\ observed = Loaded(File(safe_dump(part_map)))

(***************************************************************************)
(* Properties of build_part_class_mapping (checked under SpecMapping).     *)
(***************************************************************************)
MappingBuilt ==
  entry = "build_part_class_mapping" /\ bpc = "done" /\ build_outcome = BuildReturned

\* The linked property ids of class c that the property table describes.
Described(c) ==
  {i \in Range(classes[c].properties) : i \in DOMAIN props /\ DOMAIN props[i] # {}}

\* C11: build_part_class_mapping raises nothing; a linked property with a unit
\* reference is emitted with unit_ref equal to that reference whether or not it
\* resolves; its unit is None when the reference is not a key of the units table
\* (an empty table included), and otherwise the unit's symbol, or the unit's name
\* when it has no symbol.
C11_UnresolvedUnitRefRetained ==
  /\ (entry = "build_part_class_mapping" /\ bpc = "done") => build_outcome = BuildReturned
  /\ MappingBuilt =>
       \A c \in DOMAIN classes :
         \A i \in Range(classes[c].properties) :
           (i \in DOMAIN props /\ "unit_ref" \in DOMAIN props[i]) =>
             /\ i \in DOMAIN part_map[c].properties
             /\ LET e == part_map[c].properties[i]
                     r == props[i]["unit_ref"]
                 IN  /\ e.unit_ref = SomeText(r)
                     /\ r \notin DOMAIN units => e.unit = NoneText
                     /\ r \in DOMAIN units =>
                          e.unit = IF units[r].symbol.some THEN units[r].symbol
                                   ELSE units[r].name

\* A class links a property whose reference resolves to a unit without symbol and
\* a property whose reference does not resolve.
C11_Witness ==
  /\ MappingBuilt
  /\ DOMAIN units = {<<"a">>}
  /\ units[<<"a">>] = [name |-> SomeText(<<"m">>), symbol |-> NoneText]
  /\ <<"c">> \in DOMAIN classes
  /\ classes[<<"c">>].properties = <<<<"p">>, <<"q">>>>
  /\ DOMAIN props = {<<"p">>, <<"q">>}
  /\ props[<<"p">>] = ("unit_ref" :> <<"b">>)
  /\ props[<<"q">>] = ("unit_ref" :> <<"a">>)
  /\ part_map[<<"c">>].properties[<<"p">>].unit_ref = SomeText(<<"b">>)
  /\ part_map[<<"c">>].properties[<<"p">>].unit = NoneText
  /\ part_map[<<"c">>].properties[<<"q">>].unit = SomeText(<<"m">>)

\* C15: the result of build_part_class_mapping has exactly the keys of the class
\* table; each entry's eclass_code is its key; a class with no linked properties
\* has an entry with an empty property table; nothing is raised.
C15_OneEntryPerClass ==
  /\ (entry = "build_part_class_mapping" /\ bpc = "done") => build_outcome.kind = "returned"
  /\ MappingBuilt =>
       /\ DOMAIN part_map = DOMAIN classes
       /\ \A c \in DOMAIN part_map :
            /\ part_map[c].eclass_code = c
            /\ Len(classes[c].properties) = 0 => DOMAIN part_map[c].properties = {}

\* Two classes, one without links and one with a link that is emitted.
C15_Witness ==
  /\ MappingBuilt
  /\ DOMAIN classes = {<<"c">>, <<"d">>}
  /\ classes[<<"c">>].properties = <<>>
  /\ classes[<<"d">>].properties = <<<<"p">>>>
  /\ DOMAIN part_map = {<<"c">>, <<"d">>}
  /\ DOMAIN part_map[<<"c">>].properties = {}
  /\ DOMAIN part_map[<<"d">>].properties = {<<"p">>}

TablesLoaded ==
  /\ entry = "load_properties_and_classes"
  /\ bpc = "done"
  /\ build_outcome = BuildReturned

Matching == {n \in DOMAIN asset_dir.files : asset_dir.files[n].matches}

\* C12: the loader takes the matching documents in ascending order of path,
\* whatever the order of the directory listing, and a second run over the same
\* directory returns the class table (property lists in the same order) and the
\* property table the first run returned.
C12_IndependentOfListingOrder ==
  /\ (entry = "load_properties_and_classes" /\ bpc = "parse_asset") =>
       /\ Range(pending) \subseteq Matching
       /\ \A i, j \in 1 .. Len(pending) : i < j => pending[i] < pending[j]
       /\ Len(pending) + parsed = Cardinality(Matching)
  /\ (TablesLoaded /\ earlier.done) =>
       /\ classes = earlier.classes
       /\ props = earlier.props

\* Two runs that were given the two documents in opposite orders, the documents
\* naming the same class differently.
C12_Witness ==
  /\ TablesLoaded
  /\ earlier.done
  /\ earlier.listing = <<1, 2>>
  /\ listing = <<2, 1>>
  /\ Len(asset_dir.files[1].classes) = 1
  /\ Len(asset_dir.files[2].classes) = 1
  /\ class_code_of(asset_dir.files[1].classes[1]) = <<"c">>
  /\ class_code_of(asset_dir.files[2].classes[1]) = <<"c">>
  /\ name_of(asset_dir.files[1].classes[1]) = <<"k">>
  /\ name_of(asset_dir.files[2].classes[1]) = <<"j">>
  /\ classes[<<"c">>].name = <<"j">>

\* The CLASS elements of the documents the loader parses.
ClassElementsRead ==
  UNION {Range(asset_dir.files[n].classes) : n \in Matching}

\* The element is entered under k: under its ClassificationClassCode if that
\* has a text, else under its ClassCode.
CodedBy(e, k) ==
  /\ Len(k) > 0
  /\ IF HasText(e.classification_class_code)
       THEN IsTrimOf(k, e.classification_class_code.text)
       ELSE HasText(e.class_code) /\ IsTrimOf(k, e.class_code.text)

\* C14: a class element is entered in the class table under its
\* ClassificationClassCode when that is not empty, and under its ClassCode only
\* when the ClassificationClassCode is absent or empty; the table has no other
\* keys.
C14_FirstCodeTagWins ==
  TablesLoaded =>
    /\ \A e \in ClassElementsRead :
         /\ HasText(e.classification_class_code) =>
              \E k \in DOMAIN classes : IsTrimOf(k, e.classification_class_code.text)
         /\ (~HasText(e.classification_class_code) /\ HasText(e.class_code)) =>
              \E k \in DOMAIN classes : IsTrimOf(k, e.class_code.text)
    /\ \A k \in DOMAIN classes : \E e \in ClassElementsRead : CodedBy(e, k)

\* One class element has both codes, another a blank first code: the table has
\* the first code of the one and the second code of the other, and no more.
C14_Witness ==
  /\ TablesLoaded
  /\ DOMAIN asset_dir.files = {1, 2}
  /\ Len(asset_dir.files[1].classes) = 1
  /\ asset_dir.files[1].classes[1].classification_class_code = Found(<<"c">>)
  /\ asset_dir.files[1].classes[1].class_code = Found(<<"d">>)
  /\ Len(asset_dir.files[2].classes) = 1
  /\ asset_dir.files[2].classes[1].classification_class_code = Found(<<" ">>)
  /\ asset_dir.files[2].classes[1].class_code = Found(<<"c", " ">>)
  /\ DOMAIN classes = {<<"c">>}

RECURSIVE Ascending(_)
Ascending(S) ==
  IF S = {} THEN <<>>
  ELSE LET least == CHOOSE x \in S : \A y \in S : x <= y
       IN  <<least>> \o Ascending(S \ {least})

\* The elements of one kind the loader reads, in the order it reads them.
RECURSIVE ElementsRead(_, _)
ElementsRead(names, kind) ==
  IF Len(names) = 0 THEN <<>>
  ELSE (IF kind = "CLASS" THEN asset_dir.files[Head(names)].classes
        ELSE asset_dir.files[Head(names)].properties)
         \o ElementsRead(Tail(names), kind)

\* The CLASS elements with code k and the PROPERTY elements with identifier i,
\* in processing order.
ClassOccurrences(k) ==
  SelectSeq(ElementsRead(Ascending(Matching), "CLASS"),
            LAMBDA e : class_code_of(e) = k)
PropertyOccurrences(i) ==
  SelectSeq(ElementsRead(Ascending(Matching), "PROPERTY"),
            LAMBDA e : findtext_any_ns(e.irdi) = i)

\* The links of the occurrences, one list after the other.
RECURSIVE AllLinks(_)
AllLinks(occ) ==
  IF Len(occ) = 0 THEN <<>>
  ELSE link_irdis(Head(occ).links) \o AllLinks(Tail(occ))

\* The last text that is not empty among the texts, the empty text if none is.
RECURSIVE LastNonEmpty(_)
LastNonEmpty(texts) ==
  IF Len(texts) = 0 THEN <<>>
  ELSE IF Len(texts[Len(texts)]) > 0 THEN texts[Len(texts)]
  ELSE LastNonEmpty(SubSeq(texts, 1, Len(texts) - 1))

NamesOf(occ) == [j \in 1 .. Len(occ) |-> name_of(occ[j])]
UnitsOf(occ) == [j \in 1 .. Len(occ) |-> findtext_any_ns(occ[j].unit)]

\* C17 (as claimed): the entry of a class code or property identifier that
\* occurs more than once is the one built from its last occurrence alone.
C17_LastWriteWins ==
  TablesLoaded =>
    /\ \A k \in DOMAIN classes :
         LET occ == ClassOccurrences(k)
         IN  classes[k] = load_classes(<<occ[Len(occ)]>>, EmptyDict)[k]
    /\ \A i \in DOMAIN props :
         LET occ == PropertyOccurrences(i)
         IN  props[i] = load_properties(<<occ[Len(occ)]>>, EmptyDict)[i]

\* C17 (amended): entries are keyed by id and merged over the occurrences of
\* the id: a class entry has the name of the last occurrence with a name (the
\* empty name if none has one) and the links of all occurrences in processing
\* order; a property entry has the name (the unit reference) of the last
\* occurrence with a name (a unit reference), and lacks the field if none has one.
C17_EntriesMerged ==
  TablesLoaded =>
    /\ \A k \in DOMAIN classes :
         LET occ == ClassOccurrences(k)
         IN  /\ Len(occ) > 0
             /\ classes[k].name = LastNonEmpty(NamesOf(occ))
             /\ classes[k].properties = AllLinks(occ)
    /\ \A i \in DOMAIN props :
         LET occ == PropertyOccurrences(i)
             name == LastNonEmpty(NamesOf(occ))
             unit_ref == LastNonEmpty(UnitsOf(occ))
         IN  /\ Len(occ) > 0
             /\ DOMAIN props[i] = {f \in {"name"} : Len(name) > 0}
                                    \cup {f \in {"unit_ref"} : Len(unit_ref) > 0}
             /\ Len(name) > 0 => props[i]["name"] = name
             /\ Len(unit_ref) > 0 => props[i]["unit_ref"] = unit_ref

\* The class code c occurs in both documents, the second time without a name
\* and with another link: the entry keeps the first name and has both links.
C17_Witness ==
  /\ TablesLoaded
  /\ DOMAIN asset_dir.files = {1, 2}
  /\ Len(ClassOccurrences(<<"c">>)) = 2
  /\ name_of(asset_dir.files[2].classes[1]) = <<>>
  /\ classes[<<"c">>] = [name |-> <<"k">>, properties |-> <<<<"p">>, <<"q">>>>]

(***************************************************************************)
(* Properties of the build on documents it reads in part (checked under    *)
(* SpecBuild).                                                             *)
(***************************************************************************)
\* The document without the elements the loader passes over.
Recognised(doc) ==
  [doc EXCEPT
     !.properties = SelectSeq(@, LAMBDA e : HasText(e.irdi)),
     !.classes = SelectSeq(@, LAMBDA e : HasText(e.classification_class_code)
                                           \/ HasText(e.class_code))]

\* Some document that parses holds an element the loader passes over.
HasAnomaly(dir) ==
  \E n \in DOMAIN dir.files :
    /\ dir.files[n].matches
    /\ dir.files[n].well_formed
    /\ Recognised(dir.files[n]) # dir.files[n]

\* The tables of a run over the given documents, taken in the given order.
RECURSIVE TablesOf(_, _, _)
TablesOf(names, files, tables) ==
  IF Len(names) = 0 THEN tables
  ELSE TablesOf(Tail(names), files,
                [props |-> load_properties(files[Head(names)].properties, tables.props),
                 classes |-> load_classes(files[Head(names)].classes, tables.classes)])

\* The tables of a run over the same corpus with the recognised elements only.
CleanTables ==
  TablesOf(Ascending(Matching),
           [n \in DOMAIN asset_dir.files |-> Recognised(asset_dir.files[n])],
           [props |-> EmptyDict, classes |-> EmptyDict])

\* C13: when a document that parses holds elements the loader passes over (a
\* PROPERTY without identifier, a CLASS with its code under none of the probed
\* tag names), the result shows it: the tables returned, or the artifact main
\* wrote, differ from those of a run over the same corpus without these elements.
C13_AnomaliesRecorded ==
  (/\ entry \in {"main", "load_properties_and_classes"}
   /\ bpc = "done"
   /\ build_outcome = BuildReturned
   /\ HasAnomaly(asset_dir)) =>
    \/ classes # CleanTables.classes
    \/ props # CleanTables.props
    \/ /\ entry = "main"
       /\ artifact # File(safe_dump(build_part_class_mapping(
                            CleanTables.classes, CleanTables.props, units)))

(***************************************************************************)
(* Properties of the keyword strategy (checked under SpecBinder).          *)
(***************************************************************************)
\* C16: in an entry the keyword strategy produced, matched_item_ids is the
\* sorted union of the reverse-index lookups of matched_category_ids (ascending,
\* each item once, exactly the items of these lookups), so that it can be
\* recomputed from the stored categories and the index; and no category with an
\* empty definition text is among matched_category_ids.
C16_ItemIdsDerived ==
  binder_pc = "done" =>
    /\ \A i, j \in 1 .. Len(matched_item_ids) :
         i < j => matched_item_ids[i] < matched_item_ids[j]
    /\ Range(matched_item_ids) =
         UNION {Range(reverse_index[c]) :
                  c \in matched_category_ids \cap DOMAIN reverse_index}
    /\ \A c \in matched_category_ids :
         c \in DOMAIN entities /\ entities[c] # <<>>

\* The keyword list holds the empty keyword: the category with a definition is
\* matched, its lookup being out of order, and the category with the empty
\* definition is not.
C16_Witness ==
  /\ binder_pc = "done"
  /\ keywords = {<<>>}
  /\ matched_category_ids = {"C1"}
  /\ DOMAIN entities = {"C1", "C2"}
  /\ entities["C2"] = <<>>
  /\ DOMAIN reverse_index = {"C1", "C2"}
  /\ reverse_index["C1"] = <<2, 1>>
  /\ matched_item_ids = <<1, 2>>

=============================================================================
